---- MODULE Spec2Model ----
(***************************************************************************)
(* A model of oicb, the ICB chat client of src/oicb.c: the wire codec      *)
(* (push_icb_msg_ws, push_icb_msg_extended, get_next_icb_msg), the task    *)
(* queues (push_stdout_msg, proceed_output), the protocol state machine    *)
(* (proceed_icb_msg, proceed_user_input) and the event loop of main.       *)
(*                                                                         *)
(* Bytes are the numbers 0..255.  A C string is the sequence of its bytes  *)
(* without the terminating NUL; offsets into strings and buffers are the   *)
(* C offsets (first byte at offset 0), read with At.                       *)
(***************************************************************************)
EXTENDS Integers, Sequences, FiniteSets, TLC

VARIABLES
    state,            \* enum state: Connecting .. CommandSent
    want_exit,        \* volatile int want_exit
    srv_features,     \* enum SrvFeature bits, as a subset of {"Ping", "ExtPkt"}
    pings_sent,       \* int pings_sent
    last_cmd_has_nl,  \* int last_cmd_has_nl
    nick, room,       \* char *nick, *room (command line)
    net_timeout,      \* main: int net_timeout (command line, -t)
    tasks_net,        \* SIMPLEQ tasks_net
    tasks_stdout,     \* SIMPLEQ tasks_stdout
    buf, bufread,     \* get_next_icb_msg: static buf, bufread
    msgend, bufsize,  \* get_next_icb_msg: static msgend (offset, -1 = NULL), bufsize
    pc,               \* position of main in its event loop
    msg,              \* main: msg/msglen, the message get_next_icb_msg returned
    pfd, revents,     \* pfd[].events set by update_pollfds, pfd[].revents set by poll
    t,                \* main: time_t t
    ts_lastnetinput,  \* main: time_t ts_lastnetinput
    exited,           \* how the process ended: "no", "ok" (return 0) or the err() raised
    now,              \* the clock read by time(NULL)
    net_in,           \* bytes the server sent that read(sock) has not returned yet
    net_eof,          \* the server closed the connection
    conn,             \* the TCP connection is established
    nsrv, nuser,      \* number of server packets sent / user lines entered so far
    nshort,           \* number of short (EAGAIN) writes so far
    eof_read,         \* history: a read(sock) has returned 0
    q_enq, q_out,     \* history, queue specification: bytes enqueued / written, per fd
    c_in,             \* codec specification: the (type, payload) given to the encoder;
                      \* decoder specification: the packets sent, the bytes under way
    c_dec             \* codec, decoder specification: the messages the decoder returned

vars == <<state, want_exit, srv_features, pings_sent, last_cmd_has_nl, nick, room,
          net_timeout, tasks_net, tasks_stdout, buf, bufread, msgend, bufsize, pc,
          msg, pfd, revents, t, ts_lastnetinput, exited, now, net_in, net_eof,
          conn, nsrv, nuser, nshort, eof_read, q_enq, q_out, c_in, c_dec>>

----------------------------------------------------------------------------
(* Program constants                                                       *)

NICKNAME_MAX == 64
WS_CAP == 253
EXT_CHUNK == 254
SLOT == 256
BUF_INIT == 1024
BUF_MAX == 1048576
MAX_PINGS == 3

T_a == 97
T_b == 98
T_c == 99
T_d == 100
T_e == 101
T_f == 102
T_g == 103
T_h == 104
T_i == 105
T_j == 106
T_k == 107
T_l == 108
T_m == 109
T_n == 110

SOH == 1
NUL == 0

----------------------------------------------------------------------------
(* C string helpers                                                        *)

Min(S) == CHOOSE x \in S : \A y \in S : x <= y
Max(S) == CHOOSE x \in S : \A y \in S : x >= y

\* The byte at C offset i of s; offset Len(s) is the terminating NUL.
At(s, i) == IF i >= 0 /\ i < Len(s) THEN s[i + 1] ELSE NUL

\* The bytes of s from offset i on.
From(s, i) == SubSeq(s, i + 1, Len(s))

strlen(s) ==
    LET Z == {i \in 1..Len(s) : s[i] = NUL}
    IN  IF Z = {} THEN Len(s) ELSE Min(Z) - 1

\* The C string at s: its bytes up to the first NUL.
cstr(s) == SubSeq(s, 1, strlen(s))

\* Offset of the first c in the C string s, -1 for NULL.
strchr(s, c) ==
    LET P == {i \in 1..strlen(s) : s[i] = c}
    IN  IF P = {} THEN -1 ELSE Min(P) - 1

isblank(c) == c = 32 \/ c = 9
isspace(c) == c = 32 \/ (c >= 9 /\ c <= 13)
isdigit(c) == c >= 48 /\ c <= 57
ispunct(c) ==
    \/ c >= 33 /\ c <= 47
    \/ c >= 58 /\ c <= 64
    \/ c >= 91 /\ c <= 96
    \/ c >= 123 /\ c <= 126

RECURSIVE Flatten(_)
Flatten(ss) == IF ss = <<>> THEN <<>> ELSE Head(ss) \o Flatten(Tail(ss))

Fill(n, c) == [i \in 1..n |-> c]

Zeros(n) == Fill(n, NUL)

IsPrefix(a, b) == Len(a) <= Len(b) /\ SubSeq(b, 1, Len(a)) = a

----------------------------------------------------------------------------
(* Tasks and the outbound encoders                                         *)

\* struct icb_task as calloc leaves it: it_len is Len(it_data), it_ndone 0.
\* it_cb is never assigned in the program, so it is always NULL.
Task(data) == [it_data |-> data, it_ndone |-> 0]

push_stdout_msg(q, text) == Append(q, Task(cstr(text) \o <<NUL>>))

ws_privmsg(type, m) == type = T_h /\ At(m, 0) = 109 /\ At(m, 1) = SOH

ws_commonlen(type, m) ==
    LET p == strchr(m, 32)
    IN  IF ws_privmsg(type, m) /\ p # -1 /\ p < NICKNAME_MAX + 3
        THEN (p + 1) % 256
        ELSE 0

\* A plausible slip: the headroom for the nickname the server prepends is forgotten.
ws_maxlen_noheadroom(nk, commonlen) == (WS_CAP - commonlen) % 256

ws_maxlen(nk, commonlen) == (WS_CAP - ((strlen(nk) % 256) + 1) - commonlen) % 256

ws_msglen(type, m, src, len, maxlen) ==
    IF len > maxlen
    THEN IF type = T_b \/ ws_privmsg(type, m)
         THEN LET P == {p \in (src + 1)..(src + maxlen - 1) :
                            isblank(At(m, p)) \/ ispunct(At(m, p))}
              IN  IF P = {} THEN maxlen ELSE (Max(P) - src + 1) % 256
         ELSE maxlen
    ELSE len % 256

ws_packet(type, m, commonlen, src, msglen) ==
    <<(msglen + commonlen + 2) % 256, type>>
        \o SubSeq(m, 1, commonlen)
        \o SubSeq(m, src + 1, src + msglen)
        \o <<NUL>>

RECURSIVE ws_loop(_, _, _, _, _, _, _)
ws_loop(q, type, m, commonlen, src, len, maxlen) ==
    LET msglen == ws_msglen(type, m, src, len, maxlen)
        q1 == Append(q, Task(ws_packet(type, m, commonlen, src, msglen)))
    IN  IF len - msglen # 0
        THEN ws_loop(q1, type, m, commonlen, src + msglen, len - msglen, maxlen)
        ELSE q1

push_icb_msg_ws(q, type, m, len, nk) ==
    LET commonlen == ws_commonlen(type, m)
    IN  ws_loop(q, type, m, commonlen, commonlen, len - commonlen,
                ws_maxlen(nk, commonlen))

RECURSIVE ext_slots(_, _, _, _)
ext_slots(type, src, off, msgcnt) ==
    IF msgcnt > 1
    THEN <<NUL, type>> \o [i \in 1..EXT_CHUNK |-> At(src, off + i - 1)]
             \o ext_slots(type, src, off + EXT_CHUNK, msgcnt - 1)
    ELSE <<>>

push_icb_msg_extended(q, type, src, len0) ==
    LET len == len0 + 1
        msgcnt == (len + 253) \div EXT_CHUNK
        it_len == len + msgcnt * 2
        szfinal == (len % EXT_CHUNK) % 256
        off == EXT_CHUNK * (msgcnt - 1)
        written == ext_slots(type, src, 0, msgcnt)
                       \o <<(szfinal + 1) % 256, type>>
                       \o [i \in 1..szfinal |-> At(src, off + i - 1)]
    IN  Append(q, Task(written \o Zeros(it_len - Len(written))))

\* A plausible slip: the test of the feature bit is inverted.
push_icb_msg_inverted(q, features, type, m, len, nk) ==
    IF "ExtPkt" \notin features
    THEN push_icb_msg_extended(q, type, m, len)
    ELSE push_icb_msg_ws(q, type, m, len, nk)

\* push_icb_msg: the encoder is chosen by the ExtPkt bit of srv_features.
push_icb_msg(q, features, type, m, len, nk) ==
    IF "ExtPkt" \in features
    THEN push_icb_msg_extended(q, type, m, len)
    ELSE push_icb_msg_ws(q, type, m, len, nk)

----------------------------------------------------------------------------
(* The inbound decoder, get_next_icb_msg                                   *)

\* The byte at offset i of the buffer memory b.  Memory that was never written
\* (malloc'ed, beyond Len(b)) holds g, whatever the allocator left there.
Rd(b, i, g) == IF i >= 0 /\ i < Len(b) THEN b[i + 1] ELSE g

\* memmove(b + dst, b + src, n), n >= 0.
MemMove(b, dst, src, n, g) ==
    [i \in 1..Max({Len(b), dst + n}) |->
        IF i - 1 >= dst /\ i - 1 < dst + n
        THEN Rd(b, src + (i - 1 - dst), g)
        ELSE Rd(b, i - 1, g)]

\* b[off] = v
Poke(b, off, v, g) ==
    [i \in 1..Max({Len(b), off + 1}) |-> IF i - 1 = off THEN v ELSE Rd(b, i - 1, g)]

\* "resetting state": drop the message returned by the previous call.
\* A negative count is a size_t near SIZE_MAX: memmove runs off the heap.
gn_reset(b, br, me, g) ==
    IF me = -1
    THEN [buf |-> b, bufread |-> br, ok |-> TRUE]
    ELSE IF br - me < 0
         THEN [buf |-> b, bufread |-> br, ok |-> FALSE]
         ELSE [buf |-> MemMove(b, 0, me, br - me, g), bufread |-> br - me, ok |-> TRUE]

\* The read loop: read(sock) until EAGAIN or end of file, doubling the buffer
\* when only the byte reserved for the NUL is left.  A read stores nread bytes
\* at buf + bufread and leaves the rest of the memory as it was.
RECURSIVE gn_read(_, _, _, _, _, _, _)
gn_read(b, br, bs, avail, eof, roundread, g) ==
    IF br = bs - 1 /\ bs >= BUF_MAX
    THEN [buf |-> b, bufread |-> br, bufsize |-> bs, rest |-> avail,
          roundread |-> roundread, end |-> "toolong"]
    ELSE LET bs1 == IF br = bs - 1 THEN bs * 2 ELSE bs
             nread == Min({Len(avail), bs1 - br - 1})
         IN  IF avail = <<>>
             THEN [buf |-> b, bufread |-> br, bufsize |-> bs1, rest |-> avail,
                   roundread |-> roundread,
                   end |-> IF eof THEN "eof" ELSE "eagain"]
             ELSE gn_read((IF Len(b) >= br THEN SubSeq(b, 1, br)
                                            ELSE b \o Fill(br - Len(b), g))
                              \o SubSeq(avail, 1, nread)
                              \o SubSeq(b, br + nread + 1, Len(b)),
                          br + nread, bs1, SubSeq(avail, nread + 1, Len(avail)),
                          eof, roundread + nread, g)

\* for (lastpkt = buf; lastpkt[0] == 0; lastpkt += 256): -1 when the ending
\* packet has not been received.
RECURSIVE gn_lastpkt(_, _, _, _)
gn_lastpkt(b, br, lastpkt, g) ==
    IF Rd(b, lastpkt, g) = NUL
    THEN IF br - SLOT < lastpkt THEN -1 ELSE gn_lastpkt(b, br, lastpkt + SLOT, g)
    ELSE lastpkt

\* A plausible slip: the size and type bytes of a continuation packet are kept.
gn_shift_none(prev) == 0

\* Bytes to strip in front of a continuation packet's data.
gn_shift(prev) == IF prev = NUL THEN 3 ELSE 2

\* "remove extra data to get continious bytes"
RECURSIVE gn_compact(_, _, _, _, _)
gn_compact(b, br, lastpkt, pkt, g) ==
    IF pkt > lastpkt
    THEN [buf |-> b, bufread |-> br, end |-> "ok"]
    ELSE IF Rd(b, pkt + 1, g) # Rd(b, lastpkt + 1, g)
    THEN [buf |-> b, bufread |-> br, end |-> "typemix"]
    ELSE IF pkt = 0
    THEN gn_compact(b, br, lastpkt, pkt + SLOT, g)
    ELSE LET shift == gn_shift(Rd(b, pkt - 1, g))
         IN  IF br - (pkt + 2) < 0
             THEN [buf |-> b, bufread |-> br, end |-> "segv"]
             ELSE gn_compact(MemMove(b, pkt + 2 - shift, pkt + 2, br - (pkt + 2), g),
                             br - shift, lastpkt - shift, pkt - shift + SLOT, g)

\* The message at buf + 1: msglen bytes, the type byte first.
gn_msg(b, msglen, g) == [data |-> [i \in 1..msglen |-> Rd(b, i, g)], len |-> msglen]

NoMsg == [data |-> <<>>, len |-> -1]

\* The static state left when the call returned NULL or the process died in it.
gn_out(b, br, me, bs, rest, eof, res) ==
    [buf |-> b, bufread |-> br, msgend |-> me, bufsize |-> bs, rest |-> rest,
     eof |-> eof, res |-> res, msg |-> NoMsg]

\* A plausible slip: the terminator is appended without looking at the last byte.
gn_needs_nul_always(last) == TRUE

\* Does the message lack its terminating NUL?
gn_needs_nul(last) == last # NUL

\* The scan, the compaction and the terminator of get_next_icb_msg, on the
\* bytes the read loop left.
gn_decode(b, br, bs, rest, eof, roundread, g) ==
    IF br = 0 /\ roundread = 0
    THEN gn_out(b, br, -1, bs, rest, eof, "null")
    ELSE
    LET lastpkt == gn_lastpkt(b, br, 0, g)
    IN  IF lastpkt = -1 \/ br - Rd(b, lastpkt, g) < lastpkt
        THEN gn_out(b, br, -1, bs, rest, eof, "null")
        ELSE
        LET me == lastpkt + 1 + Rd(b, lastpkt, g)
            c == gn_compact(b, br, lastpkt, 0, g)
        IN  IF c.end # "ok"
            THEN gn_out(c.buf, c.bufread, me, bs, rest, eof, c.end)
            ELSE IF gn_needs_nul(Rd(c.buf, me - 1, g))
            THEN IF c.bufread - me < 0
                 THEN gn_out(c.buf, c.bufread, me, bs, rest, eof, "segv")
                 ELSE LET b2 == Poke(MemMove(c.buf, me + 1, me, c.bufread - me, g),
                                     me, NUL, g)
                      IN  [buf |-> b2, bufread |-> c.bufread, msgend |-> me + 1,
                           bufsize |-> bs, rest |-> rest, eof |-> eof, res |-> "msg",
                           msg |-> gn_msg(b2, me + 1 - 2, g)]
            ELSE [buf |-> c.buf, bufread |-> c.bufread, msgend |-> me,
                  bufsize |-> bs, rest |-> rest, eof |-> eof, res |-> "msg",
                  msg |-> gn_msg(c.buf, me - 2, g)]

\* get_next_icb_msg on the static state (b, br, me, bs), with avail the bytes
\* read(sock) can return and eof whether the peer has closed.  res is "msg",
\* "null" or the way the process died; eof tells that a read returned 0.
get_next_icb_msg(b, br, me, bs, avail, eof, g) ==
    LET r0 == gn_reset(b, br, me, g)
    IN  IF ~r0.ok
        THEN gn_out(b, br, me, bs, avail, FALSE, "segv")
        ELSE
        LET r1 == gn_read(r0.buf, r0.bufread, bs, avail, eof, 0, g)
        IN  IF r1.end = "toolong"
            THEN gn_out(r1.buf, r1.bufread, -1, r1.bufsize, r1.rest, FALSE, "toolong")
            ELSE gn_decode(r1.buf, r1.bufread, r1.bufsize, r1.rest,
                           r1.end = "eof", r1.roundread, g)

----------------------------------------------------------------------------
(* Flushing a queue: push_data and proceed_output                          *)

\* A plausible slip: the whole buffer is counted as written after a short write.
push_data_all(len, room_left) == len

\* push_data: write(2) is repeated until len bytes are out or it fails with
\* EAGAIN; room_left is the number of bytes the descriptor takes before that.
\* The value is the total written.
push_data(len, room_left) == IF len <= room_left THEN len ELSE room_left

\* A plausible slip: a task written in full stays at the head of the queue.
proceed_output_keep(q, room_left) ==
    IF q = <<>>
    THEN [q |-> q, out |-> <<>>]
    ELSE LET it == Head(q)
             taken == Min({Len(it.it_data) - it.it_ndone, room_left})
         IN  [q |-> <<[it EXCEPT !.it_ndone = @ + taken]>> \o Tail(q),
              out |-> SubSeq(it.it_data, it.it_ndone + 1, it.it_ndone + taken)]

\* A plausible slip: the head task is removed after one write, complete or not.
proceed_output_drop(q, room_left) ==
    IF q = <<>>
    THEN [q |-> q, out |-> <<>>]
    ELSE LET it == Head(q)
             taken == Min({Len(it.it_data) - it.it_ndone, room_left})
         IN  [q |-> Tail(q),
              out |-> SubSeq(it.it_data, it.it_ndone + 1, it.it_ndone + taken)]

\* proceed_output on queue q: the queue it leaves and the bytes the
\* descriptor took.
RECURSIVE proceed_output(_, _)
proceed_output(q, room_left) ==
    IF q = <<>>
    THEN [q |-> q, out |-> <<>>]
    ELSE LET it == Head(q)
             left == Len(it.it_data) - it.it_ndone
             taken == Min({left, room_left})
             nwritten == push_data(left, room_left)
             ndone == it.it_ndone + nwritten
             out == SubSeq(it.it_data, it.it_ndone + 1, it.it_ndone + taken)
         IN  IF ndone < Len(it.it_data)
             THEN [q |-> <<[it EXCEPT !.it_ndone = ndone]>> \o Tail(q), out |-> out]
             ELSE LET r == proceed_output(Tail(q), room_left - taken)
                  IN  [q |-> r.q, out |-> out \o r.out]

\* The bytes of q that are still to be written.
RECURSIVE Pending(_)
Pending(q) ==
    IF q = <<>> THEN <<>>
    ELSE SubSeq(Head(q).it_data, Head(q).it_ndone + 1, Len(Head(q).it_data))
             \o Pending(Tail(q))

----------------------------------------------------------------------------
(* Text queued for display                                                 *)

S_connecting_to == <<67,111,110,110,101,99,116,105,110,103,32,116,111,32>>
S_dots == <<46,46,46,32>>
S_connected_to == <<67,111,110,110,101,99,116,101,100,32,116,111,32>>
S_nl == <<10>>
S_connected == <<99,111,110,110,101,99,116,101,100,10>>
S_server == <<83,101,114,118,101,114,32>>
S_closed == <<32,99,108,111,115,101,100,32,99,111,110,110,101,99,116,105,111,110,44,
              32,101,120,105,116,105,110,103,46,46,46,10>>
S_timed_out == <<83,101,114,118,101,114,32,116,105,109,101,100,32,111,117,116,44,32,
                 101,120,105,116,105,110,103,10>>
S_logged_in == <<76,111,103,103,101,100,32,105,110,32,116,111,32,114,111,111,109,32>>
S_as == <<32,97,115,32>>
S_bye == <<73,67,66,58,32,115,101,114,118,101,114,32,115,97,105,100,32,98,121,101,45,
           98,121,101,10>>
S_unsupported(type) ==
    <<117,110,115,117,112,112,111,114,116,101,100,32,109,101,115,115,97,103,101,32,
      111,102,32,116,121,112,101,32,39,type,39,44,32,105,103,110,111,114,101,100,10>>
S_SERVER == <<83,69,82,86,69,82>>
S_BEEP == <<66,69,69,80,33>>
S_login == <<108,111,103,105,110>>
\* A plausible slip: another error text is taken for the ping-unsupported one.
S_no_ping_other == <<110,111>>
S_no_ping == <<85,110,100,101,102,105,110,101,100,32,109,101,115,115,97,103,101,32,
               116,121,112,101,32,49,48,56>>
S_version == <<49>>
\* strftime "[%H:%M:%S]": ten bytes; the digits are the wall clock's, here zeros.
S_timestamp == <<91,48,48,58,48,48,58,48,48,93>>
\* ctime(): 25 bytes ending in a newline; here the epoch's.
S_ctime == <<84,104,117,32,74,97,110,32,32,49,32,48,48,58,48,48,58,48,48,32,49,57,
             55,48,10>>

\* char *hostname (command line)
hostname == <<104>>

\* vis(3) of one byte under VIS_SAFE|VIS_NOSLASH: graphic bytes, blank, tab,
\* newline, backspace, bell and return stay, other control bytes become ^X and
\* meta bytes M-X or M^X.  With nl (VIS_NL) the newline is encoded too.
vis(c, nl) ==
    IF c >= 128
    THEN <<77>> \o (IF c - 128 < 32 \/ c - 128 = 127
                    THEN <<94, IF c - 128 = 127 THEN 63 ELSE c - 128 + 64>>
                    ELSE <<45, c - 128>>)
    ELSE IF c = 127 THEN <<94, 63>>
    ELSE IF c = 10 /\ nl THEN <<94, 74>>
    ELSE IF c < 32 /\ c \notin {7, 8, 9, 10, 13} THEN <<94, c + 64>>
    ELSE <<c>>

\* strvisx(dst, src, len, flags)
strvisx(src, nl) == Flatten([i \in 1..Len(src) |-> vis(src[i], nl)])

\* strvis(dst, src, flags)
strvis(src, nl) == strvisx(cstr(src), nl)

----------------------------------------------------------------------------
(* The protocol state machine: proceed_icb_msg and its helpers.  A session *)
(* is the record of the globals these routines read and write; err() ends  *)
(* the process at once, leaving exited set and the rest as it was then.    *)

Session(st, we, sf, nlflag, qn, qo, ex) ==
    [state |-> st, want_exit |-> we, srv_features |-> sf, last_cmd_has_nl |-> nlflag,
     tasks_net |-> qn, tasks_stdout |-> qo, exited |-> ex]

Die(s, why) == [s EXCEPT !.exited = why]

Show(s, text) == [s EXCEPT !.tasks_stdout = push_stdout_msg(@, text)]

RECURSIVE ShowAll(_, _)
ShowAll(s, texts) ==
    IF texts = <<>> THEN s ELSE ShowAll(Show(s, Head(texts)), Tail(texts))

chat_preuser(type) ==
    CASE type = T_c -> <<32, 42>>
      [] type = T_d -> <<32, 91, 61>>
      [] type \in {T_e, T_k} -> <<32, 33>>
      [] type = T_f -> <<32, 123>>
      [] OTHER -> <<32, 60>>

chat_postuser(type) ==
    CASE type = T_c -> <<42, 32>>
      [] type = T_d -> <<61, 93, 32>>
      [] type \in {T_e, T_k} -> <<33, 32>>
      [] type = T_f -> <<125, 32>>
      [] OTHER -> <<62, 32>>

\* save_history only fills the queues of the history files, which nothing else reads.
proceed_chat_msg(s, type, author, text) ==
    Show(s, S_timestamp \o chat_preuser(type) \o strvis(author, FALSE)
                \o chat_postuser(type) \o strvis(text, FALSE) \o S_nl)

proceed_cmd_result(s, m, len) ==
    [Show(s, strvisx(SubSeq(m, 1, len), FALSE))
        EXCEPT !.last_cmd_has_nl = (At(m, len - 1) = 10)]

proceed_cmd_result_end(s, m, len) ==
    [(IF s.last_cmd_has_nl
      THEN [s EXCEPT !.last_cmd_has_nl = FALSE]
      ELSE Show(s, S_nl))
        EXCEPT !.state = "Chat"]

\* strtoll(s, &endptr, 10): the offset endptr is left at.
strtoll_end(str) ==
    LET n == strlen(str)
        ws == IF \A i \in 0..(n - 1) : isspace(At(str, i)) THEN n
              ELSE Min({i \in 0..(n - 1) : ~isspace(At(str, i))})
        sg == IF At(str, ws) \in {43, 45} THEN ws + 1 ELSE ws
        dg == IF \A i \in sg..(n - 1) : isdigit(At(str, i)) THEN n
              ELSE Min({i \in sg..(n - 1) : ~isdigit(At(str, i))})
    IN  IF dg = sg THEN 0 ELSE dg

\* The field of str that starts at offset off and ends before the next SOH.
Field(str, off) ==
    LET r == From(str, off)
        p == strchr(r, SOH)
    IN  IF p = -1 THEN cstr(r) ELSE SubSeq(r, 1, p)

proceed_user_list(s, m, len) ==
    LET p1 == strchr(m, SOH)
        nk == From(m, p1 + 1)
        p2 == strchr(nk, SOH)
        idle == From(nk, p2 + 1)
        e1 == strtoll_end(idle)
        zero == From(idle, e1 + 1)
        p3 == IF e1 >= strlen(idle) THEN -1 ELSE strchr(zero, SOH)
        signon == From(zero, p3 + 1)
        e2 == strtoll_end(signon)
        ident == From(signon, e2 + 1)
        p4 == strchr(ident, SOH)
        srcaddr == From(ident, p4 + 1)
        s1 == Show(s, IF p1 = 1 /\ At(m, 0) = 109 THEN <<42>> ELSE <<32>>)
        s2 == Show(s1, Field(nk, 0))
        s3 == ShowAll(s2, <<SubSeq(idle, 1, e1), <<115>>>>)
        s4 == Show(s3, S_ctime)
        s5 == Show(s4, Field(ident, 0))
        s6 == Show(s5, cstr(srcaddr))
    IN  IF p1 = -1 THEN s
        ELSE IF p2 = -1 THEN Show(s2, S_nl)
        ELSE IF p3 = -1 THEN Show(s3, S_nl)
        ELSE IF At(signon, e2) \notin {SOH, NUL} THEN Show(s3, S_nl)
        ELSE IF p4 = -1 THEN Show(s5, S_nl)
        ELSE Show(s6, S_nl)

proceed_group_list(s, m, len, rm) ==
    LET p1 == strchr(m, SOH)
        name == SubSeq(m, 1, p1)
        topic == Field(m, p1 + 1)
        line == (IF name = cstr(rm) THEN <<42>> ELSE <<32>>) \o strvis(name, TRUE)
        padded == IF Len(line) <= 30 THEN line \o Fill(31 - Len(line), 32) ELSE line
    IN  IF p1 = -1 THEN s
        ELSE ShowAll(s, <<padded, strvis(topic, TRUE) \o S_nl>>)

\* A plausible slip: every command output line is taken for the end of the output.
cmd_handler_always_end(outtype) == "proceed_cmd_result_end"

\* cmd_handlers[]: the handler of an output type; "NULL" for the ignored ones,
\* "none" when the type is not in the table.
cmd_handler(outtype) ==
    CASE outtype = <<99, 111>> -> "proceed_cmd_result"
      [] outtype = <<101, 99>> -> "proceed_cmd_result_end"
      [] outtype = <<119, 108>> -> "proceed_user_list"
      [] outtype = <<119, 103>> -> "proceed_group_list"
      [] outtype \in {<<119, 104>>, <<103, 104>>, <<99, 104>>, <<99>>} -> "NULL"
      [] OTHER -> "none"

\* The login payload asprintf builds: nick, nick, room, "login", each closed by SOH.
login_fields(nk, rm) ==
    cstr(nk) \o <<SOH>> \o cstr(nk) \o <<SOH>> \o cstr(rm) \o <<SOH>> \o S_login \o <<SOH>>

\* A plausible slip: any protocol version is accepted.
version_any(ver) == TRUE

\* strcmp(msg, "1") == 0
version_ok(ver) == ver = S_version

\* A plausible slip: only Chat counts as logged in.
e_is_fatal_outside_chat(st) == st # "Chat"

\* case 'e': the error ends the session unless logged in.
e_is_fatal(st) == st # "Chat" /\ st # "CommandSent"

\* A plausible slip: the state check of a case is dropped.
unexpected_never(type, st) == FALSE

\* The state checks in front of the cases of proceed_icb_msg: TRUE when the case
\* calls err_unexpected_msg.  The chat cases b, c, d, f accept CommandSent,
\* which they leave for Chat; e, l, m and the default case check nothing.
unexpected(type, st) ==
    CASE type = T_a -> st # "LoginSent"
      [] type \in {T_b, T_c, T_d, T_f} -> st # "CommandSent" /\ st # "Chat"
      [] type = T_g -> st # "Chat"
      [] type = T_i -> st # "CommandSent"
      [] type = T_j -> st # "Connected"
      [] type = T_k -> st # "Chat"
      [] type = T_n -> st # "Chat"
      [] OTHER -> FALSE

proceed_icb_msg(s, m, nk, rm) ==
    LET type == At(m.data, 0)
        body == From(m.data, 1)
        len == m.len - 1
    IN  IF unexpected(type, s.state) THEN Die(s, "unexpected")
        ELSE
        CASE type = T_a ->
               [ShowAll(s, <<S_logged_in, rm, S_as, nk, S_nl>>) EXCEPT !.state = "Chat"]
          [] type \in {T_b, T_c, T_d, T_f} ->
               LET s1 == [s EXCEPT !.state = "Chat"]
                   p == strchr(body, SOH)
               IN  IF p = -1 THEN Die(s1, "invalid")
                   ELSE proceed_chat_msg(s1, type, SubSeq(body, 1, p), From(body, p + 1))
          [] type = T_e ->
               LET s1 == IF e_is_fatal(s.state) THEN [s EXCEPT !.want_exit = TRUE] ELSE s
               IN  IF cstr(body) = S_no_ping
                   THEN [s1 EXCEPT !.srv_features = @ \ {"Ping"}]
                   ELSE proceed_chat_msg(s1, type, hostname, body)
          [] type = T_g ->
               [Show(s, S_bye) EXCEPT !.want_exit = TRUE]
          [] type = T_i ->
               LET p == strchr(body, SOH)
                   outtype == SubSeq(body, 1, p)
                   rest == From(body, p + 1)
                   rlen == len - (p + 1)
                   h == cmd_handler(outtype)
               IN  IF p = -1 THEN Die(s, "invalid")
                   ELSE CASE h = "proceed_cmd_result" -> proceed_cmd_result(s, rest, rlen)
                          [] h = "proceed_cmd_result_end" -> proceed_cmd_result_end(s, rest, rlen)
                          [] h = "proceed_user_list" -> proceed_user_list(s, rest, rlen)
                          [] h = "proceed_group_list" -> proceed_group_list(s, rest, rlen, rm)
                          [] h = "NULL" -> s
                          [] OTHER -> Die(s, "invalid")
          [] type = T_j ->
               IF ~version_ok(Field(body, 0)) THEN Die(s, "version")
               ELSE LET p == login_fields(nk, rm)
                    IN  [s EXCEPT !.tasks_net = push_icb_msg(@, s.srv_features, T_a, p,
                                                             strlen(p), nk),
                                  !.state = "LoginSent"]
          [] type = T_k ->
               proceed_chat_msg(s, type, S_SERVER, S_BEEP)
          [] type = T_l ->
               [s EXCEPT !.tasks_net = push_icb_msg(@, s.srv_features, T_m, body, len, nk)]
          [] type \in {T_m, T_n} -> s
          [] OTHER -> Show(s, S_unsupported(type))

\* proceed_user_input on a line readline completed; eof stands for line == NULL.
proceed_user_input(s, eof, line, nk) ==
    IF eof THEN [s EXCEPT !.want_exit = TRUE]
    ELSE IF \A i \in 1..strlen(line) : isspace(line[i]) THEN s
    ELSE IF At(line, 0) = 47 /\ At(line, 1) # NUL
    THEN LET l1 == From(cstr(line), 1)
             n == IF \A i \in 1..Len(l1) : l1[i] \notin {32, 9} THEN Len(l1)
                  ELSE Min({i \in 1..Len(l1) : l1[i] \in {32, 9}}) - 1
             l2 == IF n < Len(l1) THEN [l1 EXCEPT ![n + 1] = SOH] ELSE l1
         IN  [s EXCEPT !.tasks_net = push_icb_msg(@, s.srv_features, T_h, l2, strlen(l2), nk),
                       !.state = "CommandSent"]
    ELSE [s EXCEPT !.tasks_net = push_icb_msg(@, s.srv_features, T_b, cstr(line),
                                              strlen(line), nk)]

----------------------------------------------------------------------------
(* Variable groups                                                         *)

sessVars == <<state, want_exit, srv_features, pings_sent, last_cmd_has_nl>>
argVars == <<nick, room, net_timeout>>
decVars == <<buf, bufread, msgend, bufsize>>
timeVars == <<t, ts_lastnetinput, now>>
pollVars == <<pfd, revents>>
envVars == <<net_in, net_eof, conn>>
cntVars == <<nsrv, nuser, nshort>>
histVars == <<q_enq, q_out>>
codecVars == <<c_in, c_dec>>

NoEvents == [Network |-> {}, Stdout |-> {}, Stdin |-> {}]

\* The values of the variables a specification does not use.
IdleSession ==
    /\ state = "Connecting" /\ want_exit = FALSE /\ pings_sent = 0
    /\ last_cmd_has_nl = FALSE /\ room = <<114>> /\ net_timeout = 0
IdleDecoder == buf = <<>> /\ bufread = 0 /\ msgend = -1 /\ bufsize = BUF_INIT
IdleLoop ==
    /\ msg = NoMsg /\ pfd = NoEvents /\ revents = NoEvents
    /\ t = 0 /\ ts_lastnetinput = 0 /\ now = 0 /\ exited = "no"
    /\ net_eof = FALSE /\ conn = TRUE /\ nsrv = 0 /\ nuser = 0 /\ nshort = 0 /\ eof_read = FALSE
IdleHist == q_enq = [Network |-> <<>>, Stdout |-> <<>>] /\ q_out = q_enq
IdleCodec == c_in = [type |-> 0, payload |-> <<>>, npkt |-> 0] /\ c_dec = <<>>

\* What an uninitialised byte of the heap may hold.
Garbage == {0, 65}

----------------------------------------------------------------------------
(* The codec specification: one message through the encoder, the wire and  *)
(* the decoder.                                                            *)

CodecMaxMult == 2

\* Text with a blank closing every tenth byte.
Words(n) == [i \in 1..n |-> IF i % 10 = 0 THEN 32 ELSE 120]

CodecNicks == {Fill(1, 110), Fill(NICKNAME_MAX - 1, 110)}

\* Payload lengths around the multiples of the chunk sizes of both encoders.
CodecLens ==
    {n \in {k * m + d : k \in 0..CodecMaxMult,
                        m \in {WS_CAP - (Len(nk) + 1) : nk \in CodecNicks} \cup {EXT_CHUNK},
                        d \in {-1, 0, 1}} : n >= 0}

\* "m", SOH, "bob", " ": the addressing prefix of a private message.
PrivPrefix == <<109, SOH, 98, 111, 98, 32>>

CodecInputs ==
    {[type |-> ty, payload |-> p, npkt |-> 0] :
        ty \in {T_b, T_h, T_m},
        p \in {Fill(n, 120) : n \in CodecLens} \cup {Words(n) : n \in CodecLens}}
    \cup {[type |-> T_h, payload |-> PrivPrefix \o Words(n), npkt |-> 0] : n \in CodecLens}

CodecInit ==
    /\ c_in \in CodecInputs
    /\ nick \in CodecNicks
    /\ srv_features \in {{"Ping"}, {"Ping", "ExtPkt"}}
    /\ pc = "c_encode"
    /\ c_dec = <<>>
    /\ tasks_net = <<>> /\ tasks_stdout = <<>> /\ net_in = <<>>
    /\ IdleSession /\ IdleDecoder /\ IdleLoop /\ IdleHist

\* push_icb_msg(type, payload, len)
CodecEncode ==
    /\ pc = "c_encode"
    /\ tasks_net' = push_icb_msg(tasks_net, srv_features, c_in.type, c_in.payload,
                                 Len(c_in.payload), nick)
    /\ c_in' = [c_in EXCEPT !.npkt = Len(tasks_net')]
    /\ pc' = "c_send"
    /\ UNCHANGED <<sessVars, argVars, decVars, timeVars, pollVars, envVars, cntVars,
                   histVars, tasks_stdout, msg, exited, eof_read, c_dec>>

\* proceed_output(&tasks_net, sock) with the socket taking every byte; the
\* peer end of the wire is the decoder's socket.
CodecSend ==
    /\ pc = "c_send"
    /\ LET r == proceed_output(tasks_net, Len(Pending(tasks_net)))
       IN  /\ tasks_net' = r.q
           /\ net_in' = net_in \o r.out
    /\ pc' = "c_decode"
    /\ UNCHANGED <<sessVars, argVars, decVars, timeVars, pollVars, net_eof, conn, cntVars,
                   histVars, tasks_stdout, msg, exited, eof_read, codecVars>>

\* One call of get_next_icb_msg; the loop of main calls it until it returns NULL.
CodecDecode ==
    /\ pc = "c_decode"
    /\ \E g \in Garbage :
         LET r == get_next_icb_msg(buf, bufread, msgend, bufsize, net_in, FALSE, g)
         IN  /\ buf' = r.buf /\ bufread' = r.bufread /\ msgend' = r.msgend
             /\ bufsize' = r.bufsize /\ net_in' = r.rest
             /\ msg' = r.msg
             /\ c_dec' = IF r.res = "msg" THEN Append(c_dec, r.msg) ELSE c_dec
             /\ pc' = IF r.res = "msg" THEN "c_decode" ELSE "c_done"
             /\ exited' = IF r.res \in {"msg", "null"} THEN "no" ELSE r.res
    /\ UNCHANGED <<sessVars, argVars, timeVars, pollVars, net_eof, conn, cntVars, histVars,
                   tasks_net, tasks_stdout, eof_read, c_in>>

CodecNext == CodecEncode \/ CodecSend \/ CodecDecode

SpecCodec == CodecInit /\ [][CodecNext]_vars

----------------------------------------------------------------------------
(* The session specification: main, its event loop and the environment     *)
(* (the server behind the socket, the user behind readline, the clock).    *)

MaxSrv == 3
MaxUser == 1
MaxTime == 5

Nicks == {<<110>>}
Rooms == {<<114>>}
\* The session runs without keepalive (-t 0).
NetTimeouts == {0}

\* A packet as an ICB server sends it: length byte, type, data, NUL.
Packet(type, data) == <<Len(data) + 2, type>> \o data \o <<NUL>>

\* The messages the server may send: every type of the protocol, the command
\* outputs, a ping as long as one packet can carry, and an unknown type.
SrvMsgs ==
    {Packet(T_j, <<49, SOH, 72, SOH, 85>>), Packet(T_j, <<50, SOH, 72>>),
     Packet(T_a, <<>>),
     Packet(T_b, <<117, SOH, 104, 105>>), Packet(T_c, <<117, SOH, 104, 105>>),
     Packet(T_d, <<117, SOH, 104, 105>>), Packet(T_f, <<117, SOH, 104, 105>>),
     Packet(T_e, <<110, 111>>), Packet(T_e, S_no_ping),
     Packet(T_g, <<>>),
     Packet(T_i, <<99, 111, SOH, 111, 107, 10>>), Packet(T_i, <<101, 99, SOH>>),
     Packet(T_i, <<119, 108, SOH, 109, SOH, 117, SOH, 53, SOH, 48, SOH, 48, SOH,
                   105, SOH, 104>>),
     Packet(T_i, <<119, 103, SOH, 114, SOH, 116>>),
     Packet(T_i, <<120, 120, SOH>>),
     Packet(T_k, <<>>),
     Packet(T_l, <<112>>), Packet(T_l, Fill(WS_CAP, 112)),
     Packet(T_m, <<>>), Packet(T_n, <<>>),
     Packet(122, <<>>)}

\* The lines the user may enter: blank, a public message, a command.
UserLines == {<<32>>, <<104, 105>>, <<47, 119>>}

\* icb_connect: connect() either is in progress or has succeeded at once.
icb_connect(q, st) ==
    IF st = "Connecting"
    THEN push_stdout_msg(push_stdout_msg(push_stdout_msg(q, S_connecting_to), hostname),
                         S_dots)
    ELSE push_stdout_msg(push_stdout_msg(push_stdout_msg(q, S_connected_to), hostname),
                         S_nl)

Init ==
    /\ state \in {"Connecting", "Connected"}
    /\ conn = (state = "Connected")
    /\ want_exit = FALSE
    /\ srv_features = {"Ping"}
    /\ pings_sent = 0
    /\ last_cmd_has_nl = FALSE
    /\ nick \in Nicks /\ room \in Rooms /\ net_timeout \in NetTimeouts
    /\ tasks_net = <<>>
    /\ tasks_stdout = icb_connect(<<>>, state)
    /\ IdleDecoder
    /\ pc = "loop"
    /\ msg = NoMsg /\ pfd = NoEvents /\ revents = NoEvents
    /\ t = 0 /\ ts_lastnetinput = 0 /\ now = 0
    /\ exited = "no"
    /\ net_in = <<>> /\ net_eof = FALSE
    /\ nsrv = 0 /\ nuser = 0 /\ nshort = 0
    /\ eof_read = FALSE
    /\ IdleHist /\ IdleCodec

\* The globals as a session record, and back.
Cur == Session(state, want_exit, srv_features, last_cmd_has_nl, tasks_net,
               tasks_stdout, exited)

Becomes(s) ==
    /\ state' = s.state
    /\ want_exit' = s.want_exit
    /\ srv_features' = s.srv_features
    /\ last_cmd_has_nl' = s.last_cmd_has_nl
    /\ tasks_net' = s.tasks_net
    /\ tasks_stdout' = s.tasks_stdout
    /\ exited' = s.exited

\* The number of bytes a descriptor takes before write(2) fails with EAGAIN:
\* nothing while the socket is not connected, else all that is pending (short
\* writes are the subject of SpecQueue).
WriteRoom(q, ready) == IF ready THEN Len(Pending(q)) ELSE 0

\* while (!want_exit) ... return 0
MainExit ==
    /\ pc = "loop" /\ want_exit
    /\ pc' = "done" /\ exited' = "ok"
    /\ UNCHANGED <<sessVars, argVars, decVars, timeVars, pollVars, envVars, cntVars,
                   histVars, codecVars, tasks_net, tasks_stdout, msg, eof_read>>

\* proceed_output(&tasks_net, sock)
FlushNet ==
    /\ pc = "loop" /\ ~want_exit
    /\ tasks_net' = proceed_output(tasks_net, WriteRoom(tasks_net, conn)).q
    /\ pc' = "watchdog"
    /\ UNCHANGED <<sessVars, argVars, decVars, timeVars, pollVars, envVars, cntVars,
                   histVars, codecVars, tasks_stdout, msg, exited, eof_read>>

\* push_data: write(2) fails with something else than EAGAIN, err(2, "write")
FlushNetErr ==
    /\ pc = "loop" /\ ~want_exit /\ tasks_net # <<>>
    /\ pc' = "done" /\ exited' = "write"
    /\ UNCHANGED <<sessVars, argVars, decVars, timeVars, pollVars, envVars, cntVars,
                   histVars, codecVars, tasks_net, tasks_stdout, msg, eof_read>>

\* A plausible slip: the socket is watched for reading only.
update_pollfds_readonly(st, qo, qn) ==
    [Stdin |-> IF st = "Connecting" THEN {} ELSE {"POLLIN"},
     Stdout |-> IF qo # <<>> THEN {"POLLOUT"} ELSE {},
     Network |-> {"POLLIN"}]

\* update_pollfds(): the events asked of poll for the three descriptors.
update_pollfds(st, qo, qn) ==
    [Stdin |-> IF st = "Connecting" THEN {} ELSE {"POLLIN"},
     Stdout |-> IF qo # <<>> THEN {"POLLOUT"} ELSE {},
     Network |-> {"POLLIN"} \cup (IF qn # <<>> THEN {"POLLOUT"} ELSE {})]

\* Has the keepalive watchdog expired at time tm?
watchdog_due(nt, ts, pings, tm) == nt # 0 /\ ts + nt * (pings + 1) < tm

\* t = time(NULL), the keepalive watchdog, update_pollfds()
Watchdog ==
    /\ pc = "watchdog"
    /\ t' = now
    /\ IF watchdog_due(net_timeout, ts_lastnetinput, pings_sent, now)
       THEN IF "Ping" \in srv_features
            THEN /\ tasks_net' = push_icb_msg(tasks_net, srv_features, T_l, <<>>, 0, nick)
                 /\ pings_sent' = pings_sent + 1
                 /\ UNCHANGED ts_lastnetinput
            ELSE /\ tasks_net' = push_icb_msg(tasks_net, srv_features, T_n, <<>>, 0, nick)
                 /\ ts_lastnetinput' = now
                 /\ UNCHANGED pings_sent
       ELSE UNCHANGED <<tasks_net, pings_sent, ts_lastnetinput>>
    /\ pfd' = update_pollfds(state, tasks_stdout, tasks_net')
    /\ revents' = NoEvents
    /\ pc' = "poll"
    /\ UNCHANGED <<state, want_exit, srv_features, last_cmd_has_nl, argVars, decVars,
                   now, envVars, cntVars, histVars, codecVars, tasks_stdout, msg,
                   exited, eof_read>>

\* The clock while main sleeps in poll; it is read only when there is a
\* timeout.
Tick == IF net_timeout = 0 THEN {now} ELSE {n \in {now, now + 1} : n <= MaxTime}

\* poll() returns: the socket is reported readable exactly when a read would
\* not block and writable when connected, the terminal writable always and
\* readable when the user has typed; with a timeout poll may also return with
\* nothing ready.
Poll ==
    /\ pc = "poll"
    /\ \E sin \in SUBSET pfd.Stdin :
         LET nin == IF conn /\ (net_in # <<>> \/ net_eof) THEN {"POLLIN"} ELSE {}
             nout == IF conn THEN pfd.Network \cap {"POLLOUT"} ELSE {}
         IN  /\ sin # {} => nuser < MaxUser
             /\ (sin \cup pfd.Stdout \cup nout \cup nin) # {} \/ net_timeout # 0
             /\ revents' = [Stdin |-> sin, Stdout |-> pfd.Stdout, Network |-> nin \cup nout]
    /\ now' \in Tick
    /\ pc' = "polled"
    /\ UNCHANGED <<sessVars, argVars, decVars, t, ts_lastnetinput, pfd, envVars, cntVars,
                   histVars, codecVars, tasks_net, tasks_stdout, msg, exited, eof_read>>

\* poll() fails with EINTR: continue
PollEintr ==
    /\ pc = "poll"
    /\ now' \in Tick
    /\ pc' = "loop"
    /\ UNCHANGED <<sessVars, argVars, decVars, t, ts_lastnetinput, pollVars, envVars,
                   cntVars, histVars, codecVars, tasks_net, tasks_stdout, msg, exited,
                   eof_read>>

\* poll() fails otherwise, or reports POLLERR, POLLHUP or POLLNVAL: err(1)
PollErr ==
    /\ pc = "poll"
    /\ pc' = "done" /\ exited' = "poll"
    /\ UNCHANGED <<sessVars, argVars, decVars, timeVars, pollVars, envVars, cntVars,
                   histVars, codecVars, tasks_net, tasks_stdout, msg, eof_read>>

\* if (state == Connecting) { state = Connected; ...; continue; }
ConnectDone ==
    /\ pc = "polled" /\ state = "Connecting"
    /\ state' = "Connected"
    /\ tasks_stdout' = push_stdout_msg(tasks_stdout, S_connected)
    /\ pc' = "loop"
    /\ UNCHANGED <<want_exit, srv_features, pings_sent, last_cmd_has_nl, argVars,
                   decVars, timeVars, pollVars, envVars, cntVars, histVars, codecVars,
                   tasks_net, msg, exited, eof_read>>

\* if (pfd[Stdin].revents & POLLIN) rl_callback_read_char(): readline takes a
\* character and calls proceed_user_input once a line, or the end of input, is
\* complete.
StdinStep ==
    /\ pc = "polled" /\ state # "Connecting"
    /\ \/ /\ "POLLIN" \in revents.Stdin
          /\ \E eof \in BOOLEAN, line \in UserLines :
               /\ eof => line = <<32>>
               /\ Becomes(proceed_user_input(Cur, eof, line, nick))
          /\ nuser' = nuser + 1
       \/ /\ UNCHANGED <<state, want_exit, srv_features, last_cmd_has_nl, tasks_net,
                         tasks_stdout, exited, nuser>>
    /\ pc' = "net"
    /\ UNCHANGED <<pings_sent, argVars, decVars, timeVars, pollVars, envVars, nsrv,
                   nshort, histVars, codecVars, msg, eof_read>>

\* Has the server been silent for max_pings timeouts at time tm?
timed_out(nt, ts, tm) == nt # 0 /\ ts + nt * MAX_PINGS < tm

\* if (pfd[Network].revents & POLLIN) { ... } else if (timed out) { ... }
NetStep ==
    /\ pc = "net"
    /\ IF "POLLIN" \in revents.Network
       THEN /\ ts_lastnetinput' = now
            /\ pings_sent' = 0
            /\ pc' = "netloop"
            /\ UNCHANGED <<want_exit, tasks_stdout>>
       ELSE IF timed_out(net_timeout, ts_lastnetinput, t)
       THEN /\ tasks_stdout' = push_stdout_msg(tasks_stdout, S_timed_out)
            /\ want_exit' = TRUE
            /\ pc' = "stdout"
            /\ UNCHANGED <<ts_lastnetinput, pings_sent>>
       ELSE /\ pc' = "stdout"
            /\ UNCHANGED <<ts_lastnetinput, pings_sent, want_exit, tasks_stdout>>
    /\ UNCHANGED <<state, srv_features, last_cmd_has_nl, argVars, decVars, t, now,
                   pollVars, envVars, cntVars, histVars, codecVars, tasks_net, msg,
                   exited, eof_read>>

\* A plausible slip: the end of file is announced but the loop goes on.
eof_want_exit_kept(we) == we

\* want_exit after read() returned 0
eof_want_exit(we) == TRUE

\* while (!want_exit && (msg = get_next_icb_msg(&msglen)) != NULL): the test of
\* the loop, with the call of get_next_icb_msg.
GetNext ==
    /\ pc = "netloop"
    /\ IF want_exit
       THEN /\ pc' = "stdout"
            /\ UNCHANGED <<decVars, net_in, msg, want_exit, tasks_stdout, exited, eof_read>>
       ELSE \E g \in Garbage :
              LET r == get_next_icb_msg(buf, bufread, msgend, bufsize, net_in, net_eof, g)
              IN  /\ buf' = r.buf /\ bufread' = r.bufread /\ msgend' = r.msgend
                  /\ bufsize' = r.bufsize /\ net_in' = r.rest
                  /\ msg' = r.msg
                  /\ eof_read' = (eof_read \/ r.eof)
                  /\ want_exit' = IF r.eof THEN eof_want_exit(want_exit) ELSE want_exit
                  /\ tasks_stdout' =
                         IF r.eof
                         THEN push_stdout_msg(push_stdout_msg(push_stdout_msg(
                                  tasks_stdout, S_server), hostname), S_closed)
                         ELSE tasks_stdout
                  /\ exited' = IF r.res \in {"msg", "null"} THEN "no" ELSE r.res
                  /\ pc' = CASE r.res = "msg" -> "dispatch"
                             [] r.res = "null" -> "stdout"
                             [] OTHER -> "done"
    /\ UNCHANGED <<state, srv_features, pings_sent, last_cmd_has_nl, argVars, timeVars,
                   pollVars, net_eof, conn, cntVars, histVars, codecVars, tasks_net>>

\* read() fails with something else than EAGAIN: err(1, "get_next_icb_msg")
GetNextErr ==
    /\ pc = "netloop" /\ ~want_exit
    /\ pc' = "done" /\ exited' = "read"
    /\ UNCHANGED <<sessVars, argVars, decVars, timeVars, pollVars, envVars, cntVars,
                   histVars, codecVars, tasks_net, tasks_stdout, msg, eof_read>>

\* proceed_icb_msg(msg, msglen)
Dispatch ==
    /\ pc = "dispatch"
    /\ LET s == proceed_icb_msg(Cur, msg, nick, room)
       IN  /\ Becomes(s)
           /\ pc' = IF s.exited = "no" THEN "netloop" ELSE "done"
    /\ UNCHANGED <<pings_sent, argVars, decVars, timeVars, pollVars, envVars, cntVars,
                   histVars, codecVars, msg, eof_read>>

\* proceed_output(&tasks_stdout, STDOUT_FILENO); proceed_history() writes the
\* history files only.
FlushStdout ==
    /\ pc = "stdout"
    /\ tasks_stdout' = proceed_output(tasks_stdout, WriteRoom(tasks_stdout, TRUE)).q
    /\ pc' = "loop"
    /\ UNCHANGED <<sessVars, argVars, decVars, timeVars, pollVars, envVars, cntVars,
                   histVars, codecVars, tasks_net, msg, exited, eof_read>>

FlushStdoutErr ==
    /\ pc = "stdout" /\ tasks_stdout # <<>>
    /\ pc' = "done" /\ exited' = "write"
    /\ UNCHANGED <<sessVars, argVars, decVars, timeVars, pollVars, envVars, cntVars,
                   histVars, codecVars, tasks_net, tasks_stdout, msg, eof_read>>

\* The environment.  What the server does is seen by the client only in poll
\* and read, so it is enough to let it act while main sleeps in poll.

\* connect() completes.
ConnEstablished ==
    /\ pc = "poll" /\ ~conn
    /\ conn' = TRUE
    /\ UNCHANGED <<sessVars, argVars, decVars, timeVars, pollVars, net_in, net_eof,
                   cntVars, histVars, codecVars, tasks_net, tasks_stdout, pc, msg,
                   exited, eof_read>>

\* A packet of the server arrives, once the client has read the previous one
\* (what the decoder does with a burst is the subject of SpecCodec).
ServerSend ==
    /\ pc = "poll" /\ conn /\ ~net_eof /\ nsrv < MaxSrv /\ net_in = <<>>
    /\ \E pkt \in SrvMsgs : net_in' = net_in \o pkt
    /\ nsrv' = nsrv + 1
    /\ UNCHANGED <<sessVars, argVars, decVars, timeVars, pollVars, net_eof, conn, nuser,
                   nshort, histVars, codecVars, tasks_net, tasks_stdout, pc, msg,
                   exited, eof_read>>

\* The server closes the connection.
ServerClose ==
    /\ pc = "poll" /\ conn /\ ~net_eof
    /\ net_eof' = TRUE
    /\ UNCHANGED <<sessVars, argVars, decVars, timeVars, pollVars, net_in, conn,
                   cntVars, histVars, codecVars, tasks_net, tasks_stdout, pc, msg,
                   exited, eof_read>>

Next ==
    \/ MainExit \/ FlushNet \/ FlushNetErr \/ Watchdog
    \/ Poll \/ PollEintr \/ PollErr
    \/ ConnectDone \/ StdinStep \/ NetStep
    \/ GetNext \/ GetNextErr \/ Dispatch
    \/ FlushStdout \/ FlushStdoutErr
    \/ ConnEstablished \/ ServerSend \/ ServerClose

Spec == Init /\ [][Next]_vars

----------------------------------------------------------------------------
(* The keepalive specification: the session with a network timeout, a     *)
(* silent user and a server that sends the login handshake and the         *)
(* ping-unsupported error, then falls silent, while the clock runs on.     *)

\* net_timeout in seconds (-t 1).
TimedTimeouts == {1}

TimedMsgs ==
    {Packet(T_j, <<49, SOH, 72, SOH, 85>>), Packet(T_a, <<>>), Packet(T_e, S_no_ping)}

\* The user types nothing: the count of input lines starts at its bound.
TimedInit ==
    /\ state \in {"Connecting", "Connected"}
    /\ conn = (state = "Connected")
    /\ want_exit = FALSE
    /\ srv_features = {"Ping"}
    /\ pings_sent = 0
    /\ last_cmd_has_nl = FALSE
    /\ nick \in Nicks /\ room \in Rooms /\ net_timeout \in TimedTimeouts
    /\ tasks_net = <<>>
    /\ tasks_stdout = icb_connect(<<>>, state)
    /\ IdleDecoder
    /\ pc = "loop"
    /\ msg = NoMsg /\ pfd = NoEvents /\ revents = NoEvents
    /\ t = 0 /\ ts_lastnetinput = 0 /\ now = 0
    /\ exited = "no"
    /\ net_in = <<>> /\ net_eof = FALSE
    /\ nsrv = 0 /\ nuser = MaxUser /\ nshort = 0
    /\ eof_read = FALSE
    /\ IdleHist /\ IdleCodec

\* A packet of the handshake or the ping-unsupported error arrives.
TimedServerSend ==
    /\ pc = "poll" /\ conn /\ ~net_eof /\ nsrv < MaxSrv /\ net_in = <<>>
    /\ \E pkt \in TimedMsgs : net_in' = net_in \o pkt
    /\ nsrv' = nsrv + 1
    /\ UNCHANGED <<sessVars, argVars, decVars, timeVars, pollVars, net_eof, conn, nuser,
                   nshort, histVars, codecVars, tasks_net, tasks_stdout, pc, msg,
                   exited, eof_read>>

\* A second passes while main sleeps in poll and the clock already shows
\* MaxTime: the origin of the clock moves on by one second instead, so that t
\* and ts_lastnetinput lose a second each.  Only differences of times are
\* compared by main; a ts_lastnetinput at the origin stands for "MaxTime or
\* more seconds ago".  poll sleeps a tenth of net_timeout, so at most one second
\* passes per call.
ClockTick ==
    /\ pc = "poll" /\ net_timeout # 0 /\ now = MaxTime /\ t = now
    /\ t' = t - 1
    /\ ts_lastnetinput' = Max({ts_lastnetinput - 1, 0})
    /\ UNCHANGED <<sessVars, argVars, decVars, now, pollVars, envVars, cntVars,
                   histVars, codecVars, tasks_net, tasks_stdout, pc, msg, exited,
                   eof_read>>

TimedNext ==
    \/ MainExit \/ FlushNet \/ FlushNetErr \/ Watchdog
    \/ Poll \/ PollEintr \/ PollErr
    \/ ConnectDone \/ StdinStep \/ NetStep
    \/ GetNext \/ GetNextErr \/ Dispatch
    \/ FlushStdout \/ FlushStdoutErr
    \/ ConnEstablished \/ TimedServerSend \/ ServerClose
    \/ ClockTick

\* The program points of main from which the next step is main's own.
MainPcs == {"loop", "watchdog", "polled", "net", "netloop", "dispatch", "stdout"}

\* A second passes.
TimePasses == (Poll /\ now' = now + 1) \/ ClockTick

\* The process keeps running (main never stays for ever at one of its program
\* points), poll keeps returning other than by a signal, and time keeps passing.
SpecTimed ==
    /\ TimedInit /\ [][TimedNext]_vars
    /\ \A p \in MainPcs : []<>(pc # p)
    /\ SF_vars(Poll)
    /\ SF_vars(TimePasses)

----------------------------------------------------------------------------
(* The queue specification: tasks pushed on the two queues and flushed to  *)
(* descriptors that take any number of bytes before EAGAIN; q_enq and      *)
(* q_out record, per destination, the bytes enqueued and the bytes taken.  *)

MaxQueued == 8
MaxRoom == 4
MaxShort == 3

QueueTexts == {<<97>>, <<98, 99>>}
QueueMsgs == {[type |-> T_l, data |-> <<>>], [type |-> T_b, data |-> <<104>>]}

\* The buffers of the tasks of q from the n+1-th on, concatenated.
DataFrom(q, n) == Flatten([i \in 1..(Len(q) - n) |-> q[n + i].it_data])

QueueInit ==
    /\ pc = "queue"
    /\ tasks_net = <<>> /\ tasks_stdout = <<>> /\ net_in = <<>>
    /\ srv_features = {"Ping"} /\ nick = <<110>>
    /\ IdleSession /\ IdleDecoder /\ IdleLoop /\ IdleHist /\ IdleCodec

\* push_stdout_msg(text)
QueuePushStdout ==
    /\ pc = "queue"
    /\ \E text \in QueueTexts :
         /\ Len(q_enq.Stdout) + Len(text) <= MaxQueued
         /\ tasks_stdout' = push_stdout_msg(tasks_stdout, text)
         /\ q_enq' = [q_enq EXCEPT !.Stdout = @ \o DataFrom(tasks_stdout', Len(tasks_stdout))]
    /\ UNCHANGED <<sessVars, argVars, decVars, timeVars, pollVars, envVars, cntVars,
                   codecVars, tasks_net, pc, msg, exited, eof_read, q_out>>

\* push_icb_msg(type, data, len)
QueuePushNet ==
    /\ pc = "queue"
    /\ \E m \in QueueMsgs :
         /\ Len(q_enq.Network) + Len(m.data) + 3 <= MaxQueued
         /\ tasks_net' = push_icb_msg(tasks_net, srv_features, m.type, m.data,
                                      Len(m.data), nick)
         /\ q_enq' = [q_enq EXCEPT !.Network = @ \o DataFrom(tasks_net', Len(tasks_net))]
    /\ UNCHANGED <<sessVars, argVars, decVars, timeVars, pollVars, envVars, cntVars,
                   codecVars, tasks_stdout, pc, msg, exited, eof_read, q_out>>

\* The rooms a descriptor may have: enough for all that is pending, or less.
QueueRooms(q) ==
    {n \in 0..MaxRoom \cup {Len(Pending(q))} : n >= Len(Pending(q)) \/ nshort < MaxShort}

\* proceed_output(&tasks_net, sock)
QueueFlushNet ==
    /\ pc = "queue" /\ tasks_net # <<>>
    /\ \E room_left \in QueueRooms(tasks_net) :
         LET r == proceed_output(tasks_net, room_left)
         IN  /\ tasks_net' = r.q
             /\ q_out' = [q_out EXCEPT !.Network = @ \o r.out]
             /\ nshort' = nshort + (IF room_left < Len(Pending(tasks_net)) THEN 1 ELSE 0)
    /\ UNCHANGED <<sessVars, argVars, decVars, timeVars, pollVars, envVars, nsrv, nuser,
                   codecVars, tasks_stdout, pc, msg, exited, eof_read, q_enq>>

\* proceed_output(&tasks_stdout, STDOUT_FILENO)
QueueFlushStdout ==
    /\ pc = "queue" /\ tasks_stdout # <<>>
    /\ \E room_left \in QueueRooms(tasks_stdout) :
         LET r == proceed_output(tasks_stdout, room_left)
         IN  /\ tasks_stdout' = r.q
             /\ q_out' = [q_out EXCEPT !.Stdout = @ \o r.out]
             /\ nshort' = nshort + (IF room_left < Len(Pending(tasks_stdout)) THEN 1 ELSE 0)
    /\ UNCHANGED <<sessVars, argVars, decVars, timeVars, pollVars, envVars, nsrv, nuser,
                   codecVars, tasks_net, pc, msg, exited, eof_read, q_enq>>

QueueNext == QueuePushStdout \/ QueuePushNet \/ QueueFlushNet \/ QueueFlushStdout

SpecQueue == QueueInit /\ [][QueueNext]_vars

\* A flush during which the descriptor takes at least one byte.
QueueWritesNet == QueueFlushNet /\ q_out'.Network # q_out.Network
QueueWritesStdout == QueueFlushStdout /\ q_out'.Stdout # q_out.Stdout

\* The queues while the session runs and both destinations become writable
\* again and again: main flushes the network queue at the top of every
\* iteration and the display queue at its bottom.  This is weak fairness of the
\* two writing flushes, WF_vars(QueueWritesNet) /\ WF_vars(QueueWritesStdout),
\* written out with what enables them: a writing flush is possible exactly
\* when the queue is not empty.
SpecQueueFair ==
    /\ QueueInit /\ [][QueueNext]_vars
    /\ []<>(tasks_net = <<>>) \/ []<><<QueueWritesNet>>_vars
    /\ []<>(tasks_stdout = <<>>) \/ []<><<QueueWritesStdout>>_vars

----------------------------------------------------------------------------
(* The decoder specification: the server sends a stream of single-slot     *)
(* packets, the network delivers it to the socket in pieces of any size,   *)
(* and main calls get_next_icb_msg when the socket is readable, again and  *)
(* again until it returns NULL.  c_in holds the packets sent and the bytes *)
(* of them still under way, c_dec the messages returned.                   *)

MaxPkts == 2

\* Packets as a server may send them: with the closing NUL counted in the
\* length byte, or without a closing NUL.
DecPackets ==
    {<<3, T_b, 104, NUL>>, <<2, T_b, 104>>, <<2, T_k, NUL>>, <<1, T_k>>}

DecStreams ==
    UNION {[1..n -> DecPackets] : n \in 1..MaxPkts}

DecInit ==
    /\ \E s \in DecStreams : c_in = [pkts |-> s, rest |-> Flatten(s)]
    /\ c_dec = <<>>
    /\ pc = "d_poll"
    /\ tasks_net = <<>> /\ tasks_stdout = <<>> /\ net_in = <<>>
    /\ srv_features = {"Ping"} /\ nick = <<110>>
    /\ IdleSession /\ IdleDecoder /\ IdleLoop /\ IdleHist

\* The next k bytes under way reach the socket.
DecDeliver ==
    /\ pc \in {"d_poll", "d_loop"}
    /\ \E k \in 1..Len(c_in.rest) :
         /\ net_in' = net_in \o SubSeq(c_in.rest, 1, k)
         /\ c_in' = [c_in EXCEPT !.rest = SubSeq(@, k + 1, Len(@))]
    /\ UNCHANGED <<sessVars, argVars, decVars, timeVars, pollVars, net_eof, conn, cntVars,
                   histVars, tasks_net, tasks_stdout, pc, msg, exited, eof_read, c_dec>>

\* if (pfd[Network].revents & POLLIN)
\*     while ((msg = get_next_icb_msg(&msglen)) != NULL) ...
\* one call of get_next_icb_msg: the first of a round when poll reports the
\* socket readable, the following ones until NULL is returned.
DecCall ==
    /\ pc = "d_loop" \/ (pc = "d_poll" /\ net_in # <<>>)
    /\ \E g \in Garbage :
         LET r == get_next_icb_msg(buf, bufread, msgend, bufsize, net_in, FALSE, g)
         IN  /\ buf' = r.buf /\ bufread' = r.bufread /\ msgend' = r.msgend
             /\ bufsize' = r.bufsize /\ net_in' = r.rest
             /\ msg' = r.msg
             /\ c_dec' = IF r.res = "msg" THEN Append(c_dec, r.msg) ELSE c_dec
             /\ pc' = CASE r.res = "msg" -> "d_loop"
                        [] r.res = "null" -> "d_poll"
                        [] OTHER -> "d_dead"
             /\ exited' = IF r.res \in {"msg", "null"} THEN "no" ELSE r.res
    /\ UNCHANGED <<sessVars, argVars, timeVars, pollVars, net_eof, conn, cntVars, histVars,
                   tasks_net, tasks_stdout, eof_read, c_in>>

DecNext == DecDeliver \/ DecCall

SpecDecoder == DecInit /\ [][DecNext]_vars

----------------------------------------------------------------------------
(* The backlog specification: the server sends complete packets of 256     *)
(* bytes, which reach the socket in bursts while main is busy elsewhere;   *)
(* main calls get_next_icb_msg when the socket is readable, until NULL.    *)
(* The packets are all alike, so c_in counts them: those still under way   *)
(* and those waiting in the socket; c_dec holds the messages returned.     *)

MaxCalls == 3
MaxTrickle == 8

\* As many packets as fill the buffer at its ceiling.
BacklogPkts == BUF_MAX \div SLOT

\* The packets that may reach the socket at once.
BacklogBursts == {1, 2, BacklogPkts}

\* k packets <<255, 'b', 253 bytes 'x', NUL>>, one after the other.
Backlog(k) ==
    [i \in 1..(k * SLOT) |->
        CASE i % SLOT = 1 -> SLOT - 1
          [] i % SLOT = 2 -> T_b
          [] i % SLOT = 0 -> NUL
          [] OTHER -> 120]

BacklogInit ==
    /\ c_in = [left |-> BacklogPkts, queued |-> 0]
    /\ c_dec = <<>>
    /\ pc = "d_poll"
    /\ tasks_net = <<>> /\ tasks_stdout = <<>> /\ net_in = <<>>
    /\ srv_features = {"Ping"} /\ nick = <<110>>
    /\ IdleSession /\ IdleDecoder /\ IdleLoop /\ IdleHist

\* A burst of packets reaches the socket: the whole backlog at once, or one
\* or two packets at a time, which the model follows for MaxTrickle packets.
BacklogArrive ==
    /\ pc \in {"d_poll", "d_loop"}
    /\ \E k \in BacklogBursts :
         /\ k <= c_in.left
         /\ k = BacklogPkts \/ BacklogPkts - c_in.left + k <= MaxTrickle
         /\ c_in' = [left |-> c_in.left - k, queued |-> c_in.queued + k]
    /\ UNCHANGED <<sessVars, argVars, decVars, timeVars, pollVars, envVars, cntVars,
                   histVars, tasks_net, tasks_stdout, pc, msg, exited, eof_read, c_dec>>

\* One call of get_next_icb_msg, as in DecCall; the model follows the first
\* MaxCalls messages.  A call that returns has read all that waited in the
\* socket; err() ends the process inside the call, and its memory with it.
BacklogCall ==
    /\ pc = "d_loop" \/ (pc = "d_poll" /\ c_in.queued > 0)
    /\ Len(c_dec) < MaxCalls
    /\ \E g \in Garbage :
         LET r == get_next_icb_msg(buf, bufread, msgend, bufsize,
                                   Backlog(c_in.queued), FALSE, g)
         IN  IF r.res \in {"msg", "null"}
             THEN /\ buf' = r.buf /\ bufread' = r.bufread /\ msgend' = r.msgend
                  /\ bufsize' = r.bufsize
                  /\ c_in' = [c_in EXCEPT !.queued = Len(r.rest) \div SLOT]
                  /\ msg' = r.msg
                  /\ c_dec' = IF r.res = "msg" THEN Append(c_dec, r.msg) ELSE c_dec
                  /\ pc' = IF r.res = "msg" THEN "d_loop" ELSE "d_poll"
                  /\ UNCHANGED exited
             ELSE /\ pc' = "d_dead" /\ exited' = r.res
                  /\ UNCHANGED <<decVars, msg, c_in, c_dec>>
    /\ UNCHANGED <<sessVars, argVars, timeVars, pollVars, envVars, cntVars, histVars,
                   tasks_net, tasks_stdout, eof_read>>

BacklogNext == BacklogArrive \/ BacklogCall

SpecBacklog == BacklogInit /\ [][BacklogNext]_vars

----------------------------------------------------------------------------
(* The closing specification: the session with a silent user and a server  *)
(* that sends pings and pongs, any number of them before main wakes from    *)
(* poll, and then closes the connection.                                    *)

\* A ping and a pong: neither ends the session nor depends on its state.
CloseMsgs == {Packet(T_l, <<112>>), Packet(T_m, <<>>)}

CloseInit ==
    /\ state \in {"Connecting", "Connected"}
    /\ conn = (state = "Connected")
    /\ want_exit = FALSE
    /\ srv_features = {"Ping"}
    /\ pings_sent = 0
    /\ last_cmd_has_nl = FALSE
    /\ nick \in Nicks /\ room \in Rooms /\ net_timeout = 0
    /\ tasks_net = <<>>
    /\ tasks_stdout = icb_connect(<<>>, state)
    /\ IdleDecoder
    /\ pc = "loop"
    /\ msg = NoMsg /\ pfd = NoEvents /\ revents = NoEvents
    /\ t = 0 /\ ts_lastnetinput = 0 /\ now = 0
    /\ exited = "no"
    /\ net_in = <<>> /\ net_eof = FALSE
    /\ nsrv = 0 /\ nuser = MaxUser /\ nshort = 0
    /\ eof_read = FALSE
    /\ IdleHist /\ IdleCodec

\* A packet arrives at the socket, behind the ones that wait there unread.
CloseServerSend ==
    /\ pc = "poll" /\ conn /\ ~net_eof /\ nsrv < MaxSrv
    /\ \E pkt \in CloseMsgs : net_in' = net_in \o pkt
    /\ nsrv' = nsrv + 1
    /\ UNCHANGED <<sessVars, argVars, decVars, timeVars, pollVars, net_eof, conn, nuser,
                   nshort, histVars, codecVars, tasks_net, tasks_stdout, pc, msg,
                   exited, eof_read>>

CloseNext ==
    \/ MainExit \/ FlushNet \/ FlushNetErr \/ Watchdog
    \/ Poll \/ PollEintr \/ PollErr
    \/ ConnectDone \/ StdinStep \/ NetStep
    \/ GetNext \/ GetNextErr \/ Dispatch
    \/ FlushStdout \/ FlushStdoutErr
    \/ ConnEstablished \/ CloseServerSend \/ ServerClose

SpecClose == CloseInit /\ [][CloseNext]_vars

----------------------------------------------------------------------------
(* Claims about the codec                                                  *)

\* The payload of a decoded message: what follows its type byte.
DecPayload(m) == SubSeq(m.data, 2, m.len)

DecodedAll == pc = "c_done"

\* C9 (as claimed): once the decoder has returned everything it can from the
\* encoder's bytes, the decoder has not failed, every decoded message has the
\* original type, the decoded payloads concatenated are the original payload,
\* standard mode gives one message per packet sent and extended mode gives exactly
\* one message whose reported length is the payload length plus the type byte.
C9_RoundTrip ==
    DecodedAll =>
        /\ exited = "no"
        /\ \A i \in 1..Len(c_dec) : c_dec[i].data[1] = c_in.type
        /\ Flatten([i \in 1..Len(c_dec) |-> DecPayload(c_dec[i])]) = c_in.payload
        /\ "ExtPkt" \notin srv_features => Len(c_dec) = c_in.npkt
        /\ "ExtPkt" \in srv_features =>
               Len(c_dec) = 1 /\ c_dec[1].len = Len(c_in.payload) + 1

\* C10: every packet of the standard-mode encoder has a length byte equal to the
\* number of bytes that follow it (no wrap-around modulo 256), is at most 255
\* bytes long, and carries at most 253 - strlen(nick) payload bytes after the
\* repeated common prefix.
C10_ChunkBound ==
    (pc = "c_send" /\ "ExtPkt" \notin srv_features) =>
        \A i \in 1..Len(tasks_net) :
            LET d == tasks_net[i].it_data
            IN  /\ d[1] = Len(d) - 1
                /\ Len(d) <= 255
                /\ Len(d) - 3 - ws_commonlen(c_in.type, c_in.payload)
                       <= 253 - Len(nick)

\* C10 witness: a message split into several packets, one of them filled to the
\* limit the nickname leaves.
C10_Witness ==
    /\ pc = "c_send" /\ "ExtPkt" \notin srv_features
    /\ Len(tasks_net) >= 2
    /\ \E i \in 1..Len(tasks_net) : Len(tasks_net[i].it_data) = 255 - Len(nick)

----------------------------------------------------------------------------
(* Claims about the session                                                *)

\* The type of the message in msg: the one being dispatched when pc is
\* "dispatch", the last one dispatched afterwards.
MsgType == IF msg.data = <<>> THEN NUL ELSE msg.data[1]

\* The first field of the message in msg: the bytes after the type up to the
\* first SOH or NUL.
MsgField1 ==
    LET body == SubSeq(msg.data, 2, Len(msg.data))
        ends == {i \in 1..Len(body) : body[i] \in {SOH, NUL}}
    IN  SubSeq(body, 1, IF ends = {} THEN Len(body) ELSE Min(ends) - 1)

Dispatching == pc = "dispatch"
Dispatched == pc \in {"netloop", "done"} /\ msg # NoMsg

Edges ==
    {<<"Connecting", "Connected">>, <<"Connected", "LoginSent">>,
     <<"LoginSent", "Chat">>, <<"Chat", "CommandSent">>, <<"CommandSent", "Chat">>}

\* C1 (as claimed): every step that changes the session state follows one of
\* the edges Connecting->Connected, Connected->LoginSent, LoginSent->Chat,
\* Chat->CommandSent, CommandSent->Chat.
C1_StateEdges == [][state' # state => <<state, state'>> \in Edges]_vars

\* The dispatch ended in err_unexpected_msg with the state and the network
\* queue as they were.
RejectedUnexpected ==
    exited' = "unexpected" /\ state' = state /\ tasks_net' = tasks_net

\* The types the claim lets each state accept.
C2_ClaimedAccepts(st) ==
    CASE st = "Connected" -> {T_j}
      [] st = "LoginSent" -> {T_a, T_e}
      [] st = "Chat" -> {T_b, T_c, T_d, T_f, T_k, T_n, T_l, T_g, T_e}
      [] st = "CommandSent" -> {T_i, T_e}
      [] OTHER -> {}

\* C2 (as claimed): dispatching a message whose type the state does not accept
\* ends the session with the unexpected-message error, state and network queue
\* unchanged.
C2_AsClaimed ==
    [][Dispatching /\ MsgType \notin C2_ClaimedAccepts(state) => RejectedUnexpected]_vars

\* The types whose case checks the state, and what each state accepts of them.
C2_Checked == {T_a, T_b, T_c, T_d, T_f, T_g, T_i, T_j, T_k, T_n}

C2_Accepts(st) ==
    CASE st = "Connected" -> {T_j}
      [] st = "LoginSent" -> {T_a}
      [] st = "Chat" -> {T_b, T_c, T_d, T_f, T_g, T_k, T_n}
      [] st = "CommandSent" -> {T_i, T_b, T_c, T_d, T_f}
      [] OTHER -> {}

\* C2 (amended): a message of type a, b, c, d, f, g, i, j, k or n dispatched in a
\* state that does not accept it (Connected: j; LoginSent: a; Chat: b, c, d, f,
\* g, k, n; CommandSent: i, b, c, d, f) ends the session with the
\* unexpected-message error, state and network queue unchanged; no other
\* dispatch ends with that error (e, l, m and unknown types are never rejected).
C2_Rejects ==
    [][Dispatching =>
          IF MsgType \in C2_Checked /\ MsgType \notin C2_Accepts(state)
          THEN RejectedUnexpected
          ELSE exited' # "unexpected"]_vars

\* C2 witness: a type-b message was dispatched before login and rejected.
C2_Witness ==
    Dispatched /\ MsgType = T_b /\ state = "Connected" /\ exited = "unexpected"

\* The login packet for nickname nk and room rm as it goes on the wire.
LoginPacket(nk, rm) ==
    LET p == nk \o <<SOH>> \o nk \o <<SOH>> \o rm \o <<SOH>>
                \o <<108, 111, 103, 105, 110>> \o <<SOH>>
    IN  <<Len(p) + 2, T_a>> \o p \o <<NUL>>

C4_Error ==
    [][Dispatching /\ MsgType = T_e =>
          IF state \in {"Chat", "CommandSent"}
          THEN state' = state /\ want_exit' = want_exit /\ exited' = "no"
          ELSE want_exit']_vars

\* C4 witness: an error was dispatched in CommandSent and the session goes on.
C4_Witness ==
    Dispatched /\ MsgType = T_e /\ state = "CommandSent" /\ ~want_exit /\ exited = "no"

\* The payload of the message in msg: what follows its type byte, up to the NUL
\* that closes the packet.
MsgPayload == cstr(SubSeq(msg.data, 2, Len(msg.data)))

\* C5 (as claimed): a type-l message dispatched in Chat appends exactly one
\* packet to the network queue, a type-m packet with the ping's payload, and
\* leaves the state as it was.
C5_OnePong ==
    [][Dispatching /\ MsgType = T_l /\ state = "Chat" =>
          /\ tasks_net' = Append(tasks_net,
                                 Task(<<Len(MsgPayload) + 2, T_m>> \o MsgPayload \o <<NUL>>))
          /\ state' = state]_vars

\* The output type of the command result in msg.
IsOutType(tag) == MsgType = T_i /\ MsgField1 = tag

\* C6 (as claimed): a dispatch in CommandSent that the process survives leaves
\* CommandSent for Chat exactly when the message is the type-i "ec".
C6_AsClaimed ==
    [][Dispatching /\ state = "CommandSent" /\ exited' = "no" =>
          /\ state' \in {"CommandSent", "Chat"}
          /\ state' = "Chat" <=> IsOutType(<<101, 99>>)]_vars

\* C6 (amended): a dispatch in CommandSent that the process survives leaves
\* CommandSent for Chat exactly when the message is the type-i "ec" or a chat
\* message of type b, c, d or f; the type-i "co", "wl", "wg" and the ignored
\* tags keep the session in CommandSent.
C6_CommandEnd ==
    [][Dispatching /\ state = "CommandSent" /\ exited' = "no" =>
          /\ state' \in {"CommandSent", "Chat"}
          /\ state' = "Chat" <=>
                 (IsOutType(<<101, 99>>) \/ MsgType \in {T_b, T_c, T_d, T_f})]_vars

\* C6 witness: a command output line was dispatched and the session is still
\* in CommandSent.
C6_Witness ==
    Dispatched /\ IsOutType(<<99, 111>>) /\ state = "CommandSent" /\ exited = "no"

\* "Server h closed connection, exiting...\n" as the three tasks that
\* announce it.
Announcement == <<Task(S_server \o <<NUL>>), Task(hostname \o <<NUL>>),
                  Task(S_closed \o <<NUL>>)>>

\* C7: the call of get_next_icb_msg in which read returns 0 in state Chat
\* queues the announcement for display and requests the exit without ending
\* the process by an error; from that read on no task of the network queue is
\* written or removed.
C7_Eof ==
    [][/\ (pc = "netloop" /\ ~eof_read /\ eof_read' /\ state = "Chat") =>
              /\ tasks_stdout' = tasks_stdout \o Announcement
              /\ want_exit' /\ exited' = "no"
       /\ (eof_read \/ eof_read') => IsPrefix(tasks_net, tasks_net')]_vars

\* C7 witness: read returned 0 in Chat with nothing left to dispatch, and main
\* returned 0.
C7_Witness ==
    eof_read /\ state = "Chat" /\ msg = NoMsg /\ pc = "done" /\ exited = "ok"

----------------------------------------------------------------------------
(* Claims about the queues                                                 *)

Queue(d) == IF d = "Network" THEN tasks_net ELSE tasks_stdout

\* C8: for each destination the bytes written followed by the bytes still
\* pending are the bytes enqueued, in order (so what was written is a prefix of
\* what was enqueued, nothing duplicated, lost or interleaved); only the task at
\* the head can be partly written, and it stays there with an unwritten suffix.
C8_Fifo ==
    \A d \in {"Network", "Stdout"} :
        /\ q_out[d] \o Pending(Queue(d)) = q_enq[d]
        /\ IsPrefix(q_out[d], q_enq[d])
        /\ \A i \in 1..Len(Queue(d)) :
               /\ Queue(d)[i].it_ndone < Len(Queue(d)[i].it_data)
               /\ i > 1 => Queue(d)[i].it_ndone = 0

\* C8 witness: a task partly written at the head of a queue with another one
\* behind it, after an earlier task went out whole.
C8_Witness ==
    \E d \in {"Network", "Stdout"} :
        /\ Len(Queue(d)) >= 2
        /\ Queue(d)[1].it_ndone > 0
        /\ Len(q_out[d]) > Queue(d)[1].it_ndone

----------------------------------------------------------------------------
(* Claims about the keepalive                                              *)

\* C11 (as claimed): with a network timeout, a server that falls silent and a
\* clock that runs on, the event loop eventually exits, whether pings or no-ops
\* are sent.
C11_EventuallyExits == <>(pc = "done")


\* The text of the error by which a server says it has no ping:
\* "Undefined message type 108".
NoPingText == <<85,110,100,101,102,105,110,101,100,32,109,101,115,115,97,103,101,32,
                116,121,112,101,32,49,48,56>>

\* C12: PING_SUPPORTED is set when the session starts, a step clears it only
\* by dispatching a type-e message whose text is the ping-unsupported one, and
\* once cleared it is never set again.
C12_PingFlag ==
    /\ "Ping" \in srv_features
    /\ [][/\ ("Ping" \in srv_features /\ "Ping" \notin srv_features') =>
                 (Dispatching /\ MsgType = T_e /\ MsgPayload = NoPingText)
          /\ "Ping" \notin srv_features => "Ping" \notin srv_features']_vars

\* C12 witness: the ping-unsupported error was dispatched in Chat and the flag
\* is cleared.
C12_Witness ==
    /\ Dispatched /\ MsgType = T_e /\ MsgPayload = NoPingText
    /\ state = "Chat" /\ "Ping" \notin srv_features

\* C13 (as claimed): dispatching the ping-unsupported error clears
\* PING_SUPPORTED and, in whichever state, neither requests the exit, nor queues
\* a line for display, nor changes the state.
C13_Absorbed ==
    [][Dispatching /\ MsgType = T_e /\ MsgPayload = NoPingText =>
          /\ "Ping" \notin srv_features'
          /\ want_exit' = want_exit
          /\ tasks_stdout' = tasks_stdout
          /\ state' = state]_vars

\* C14 (as claimed): the state leaves Connecting for Connected only after a
\* poll that reported the socket writable.
C14_ConnectedWhenWritable ==
    [][state = "Connecting" /\ state' = "Connected" =>
          "POLLOUT" \in revents.Network]_vars

\* The watchdog is about to fire: main is at its keepalive test, a timeout is
\* set and no network input came for more than timeout * (pings_sent + 1)
\* seconds.
WatchdogFires ==
    pc = "watchdog" /\ net_timeout # 0
    /\ ts_lastnetinput + net_timeout * (pings_sent + 1) < now

\* C17 (as claimed): each time the watchdog fires, exactly one keepalive is
\* appended to the network queue, a ping if PING_SUPPORTED is set and a no-op
\* otherwise, and pings_sent grows by one in both cases; pings_sent returns to 0
\* only when the socket was reported readable.
C17_Keepalive ==
    [][/\ WatchdogFires =>
            /\ tasks_net' = Append(tasks_net,
                   Task(<<2, IF "Ping" \in srv_features THEN T_l ELSE T_n, NUL>>))
            /\ pings_sent' = pings_sent + 1
       /\ (pings_sent # 0 /\ pings_sent' = 0) => "POLLIN" \in revents.Network]_vars

\* C18: whenever main calls poll, the display stream is watched for writing
\* iff the display queue is not empty, the socket is watched for reading, and
\* for writing iff the network queue is not empty, and the input stream is
\* watched for reading iff the state is not Connecting.
C18_WatchedSet ==
    pc = "poll" =>
        /\ "POLLOUT" \in pfd.Stdout <=> tasks_stdout # <<>>
        /\ "POLLIN" \in pfd.Network
        /\ "POLLOUT" \in pfd.Network <=> tasks_net # <<>>
        /\ "POLLIN" \in pfd.Stdin <=> state # "Connecting"
        /\ pfd.Stdin \subseteq {"POLLIN"} /\ pfd.Stdout \subseteq {"POLLOUT"}

\* C18 witness: main calls poll with a packet waiting on the network queue
\* and nothing left to display.
C18_Witness ==
    /\ pc = "poll" /\ state # "Connecting" /\ tasks_net # <<>> /\ tasks_stdout = <<>>
    /\ pfd = [Stdin |-> {"POLLIN"}, Stdout |-> {}, Network |-> {"POLLIN", "POLLOUT"}]

----------------------------------------------------------------------------
(* Claims about the task queues, continued                                 *)

\* C19: every task of the two queues has 0 <= offset <= length; after a
\* flush only the head task of a queue has a non-zero offset, and that offset
\* is less than the task's length.
C19_Offsets ==
    \A d \in {"Network", "Stdout"} :
        LET q == Queue(d)
        IN  \A i \in 1..Len(q) :
                /\ 0 <= q[i].it_ndone /\ q[i].it_ndone <= Len(q[i].it_data)
                /\ i > 1 => q[i].it_ndone = 0
                /\ i = 1 => q[i].it_ndone < Len(q[i].it_data)

\* C19 witness: after a short write that completed one task, the next task is
\* at the head, partly written, with another task behind it.
C19_Witness ==
    /\ Len(tasks_stdout) > 1 /\ tasks_stdout[1].it_ndone > 0
    /\ Len(q_out.Stdout) > tasks_stdout[1].it_ndone

\* C20: with both destinations writable again and again, every byte enqueued
\* on a queue is eventually taken by its descriptor and the task it belongs to
\* removed from the queue: the tasks left hold only bytes enqueued after it.
C20_Delivered ==
    \A d \in {"Network", "Stdout"} : \A k \in 1..MaxQueued :
        (Len(q_enq[d]) >= k) ~>
            (/\ Len(q_out[d]) >= k
             /\ Len(q_enq[d]) - Len(DataFrom(Queue(d), 0)) >= k)

\* C20 witness: all that was enqueued on the network queue, several tasks, was
\* written and removed, one flush having stopped in the middle of a task.
C20_Witness ==
    /\ tasks_net = <<>> /\ Len(q_out.Network) >= 6 /\ q_out.Network = q_enq.Network
    /\ nshort > 0

----------------------------------------------------------------------------
(* Claims about the decoder                                                *)

\* The bytes the server sent, and how many of them have reached the socket.
Sent == Flatten(c_in.pkts)
Arrived == Len(Sent) - Len(c_in.rest)

\* The offset in the stream at which the i-th packet ends.
PktEnd(i) == Len(Flatten(SubSeq(c_in.pkts, 1, i)))

\* The message a packet carries: its type and payload without the closing
\* NUL, and the number of these bytes.
PktMsg(p) ==
    LET n == IF p[Len(p)] = NUL THEN Len(p) - 1 ELSE Len(p)
    IN  [data |-> SubSeq(p, 2, n), len |-> n - 1]

\* C15 (as claimed): the decoder has returned a message only for packets whose
\* every byte has arrived, it never depends on a byte that has not arrived (it
\* does not fail), and when it has returned NULL the bytes that arrived and
\* belong to no returned message are still there for the next call.
C15_OnlyComplete ==
    /\ exited = "no"
    /\ Len(c_dec) <= Len(c_in.pkts)
    /\ PktEnd(Len(c_dec)) <= Arrived
    /\ msgend = -1 =>
           SubSeq(buf, 1, bufread) \o net_in = SubSeq(Sent, PktEnd(Len(c_dec)) + 1, Arrived)

\* C16 (as claimed): however the stream is split across reads, the messages
\* returned are the packets' types and payloads in order, each followed by a
\* NUL that its length does not count; the bytes behind a returned message are
\* kept as they arrived; and when all has arrived and NULL is returned, every
\* packet has been returned.
C16_InOrder ==
    /\ exited = "no"
    /\ Len(c_dec) <= Len(c_in.pkts)
    /\ \A i \in 1..Len(c_dec) : c_dec[i] = PktMsg(c_in.pkts[i])
    /\ msgend # -1 =>
           /\ msgend <= Len(buf) /\ buf[msgend] = NUL
           /\ SubSeq(buf, msgend + 1, bufread) \o net_in \o c_in.rest
                  = SubSeq(Sent, PktEnd(Len(c_dec)) + 1, Len(Sent))
    /\ (pc = "d_poll" /\ c_in.rest = <<>> /\ net_in = <<>>) => Len(c_dec) = Len(c_in.pkts)

----------------------------------------------------------------------------
(* Claims about the extended-mode encoder                                  *)

\* The slots the claim describes for a payload p of type ty: k - 1 slots of
\* 256 bytes (length byte 0, type, 254 payload bytes) and a final slot whose
\* length byte is 1 plus the bytes it carries, the payload being followed
\* by one NUL; k = ceil((n + 1) / 254).
RECURSIVE SlotsOf(_, _)
SlotsOf(ty, bytes) ==
    IF Len(bytes) > 254
    THEN <<0, ty>> \o SubSeq(bytes, 1, 254) \o SlotsOf(ty, SubSeq(bytes, 255, Len(bytes)))
    ELSE <<Len(bytes) + 1, ty>> \o bytes

\* C21 (as claimed): in extended mode the bytes queued for a payload of n
\* bytes are ceil((n + 1) / 254) slots, the non-final ones 256 bytes with
\* length byte 0, the final one with a length byte of 1 plus the bytes it
\* carries, and the slots' payload bytes are the payload followed by one NUL.
C21_ExtendedSlots ==
    (pc = "c_send" /\ "ExtPkt" \in srv_features) =>
        Pending(tasks_net) = SlotsOf(c_in.type, c_in.payload \o <<NUL>>)

----------------------------------------------------------------------------
(* Claims about the inbound buffer                                         *)

\* C22 (as claimed): after every call of the decoder at most bufsize - 1
\* bytes are buffered, no access of the decoder left the buffer, and bufsize
\* is the initial size doubled some number of times, at most the ceiling.
C22_BufferBounds ==
    /\ bufread <= bufsize - 1
    /\ exited # "segv"
    /\ \E k \in 0..10 : bufsize = BUF_INIT * 2^k
    /\ bufsize <= BUF_MAX

\* C25 (as claimed): a backlog of complete packets, each far smaller than
\* the ceiling of the buffer, never raises the "too long message" error.
C25_BacklogTolerated == exited # "toolong"

----------------------------------------------------------------------------
(* Claims about the server features                                        *)

\* C26: EXTENDED_PACKETS is never set, and every task on the network queue is
\* one packet of the standard encoder: a non-zero length byte that counts all
\* the bytes behind it, the last of them the NUL, and no continuation slot.
C26_StandardOnly ==
    /\ "ExtPkt" \notin srv_features
    /\ \A i \in 1..Len(tasks_net) :
           LET d == tasks_net[i].it_data
           IN  /\ Len(d) >= 3 /\ Len(d) <= SLOT - 1
               /\ d[1] = Len(d) - 1
               /\ d[Len(d)] = NUL

\* C26 witness: the pong to a ping as long as a packet can carry was queued,
\* split by the standard encoder into two packets.
C26_Witness ==
    /\ Dispatched /\ MsgType = T_l /\ Len(MsgPayload) = WS_CAP
    /\ Len(tasks_net) = 2 /\ "ExtPkt" \notin srv_features

----------------------------------------------------------------------------
(* Claims about the order of outbound traffic                              *)

\* C23 (as claimed): while the login has not been queued (the state is still
\* Connecting or Connected), a step that appends to the network queue appends
\* the login message first.
C23_LoginFirst ==
    [][(/\ state \in {"Connecting", "Connected"}
        /\ Len(tasks_net') > Len(tasks_net)
        /\ SubSeq(tasks_net', 1, Len(tasks_net)) = tasks_net) =>
           tasks_net'[Len(tasks_net) + 1].it_data[2] = T_a]_vars


\* The bytes received from the server that no message handed to
\* proceed_icb_msg covers: what the buffer keeps behind the last message
\* returned, and what waits in the socket.
Undispatched ==
    (IF msgend = -1 THEN SubSeq(buf, 1, Min({bufread, Len(buf)}))
                    ELSE SubSeq(buf, msgend + 1, Min({bufread, Len(buf)})))
    \o net_in

\* C24 (as claimed): when the session has ended because the peer closed the
\* connection, every complete message received before the zero-byte read has
\* been dispatched: none is left in the buffer or in the socket.
C24_AllDispatched ==
    (pc = "done" /\ exited = "ok" /\ eof_read) => Undispatched = <<>>

====
